---- MODULE Spec2Model ----
(***************************************************************************)
(* Model of fine-tunning/lora/lora-peft-confusion-matrix.py: a single     *)
(* linear script that fine-tunes a sequence classifier with a LoRA        *)
(* adapter, evaluates it and writes a confusion matrix and a JSON run     *)
(* summary.                                                                *)
(*                                                                         *)
(* Spec     one run of the script, statement by statement (pc is the      *)
(*          position in the file).  The numerical content of tensors is   *)
(*          abstracted: the model state is the number of parameter        *)
(*          updates applied, and the predicted labels of a batch are an   *)
(*          input drawn from a small set.                                  *)
(* SpecRuns two runs of the script sharing the wall clock and the         *)
(*          results/ directory, for the naming of the summary file.       *)
(***************************************************************************)
EXTENDS Integers, Sequences, FiniteSets, TLC

(***************************************************************************)
(* Program constants.                                                      *)
(***************************************************************************)
batch_size == 5
num_epochs == 5
n_labels == 33

(***************************************************************************)
(* Bounds of the model.                                                    *)
(***************************************************************************)
\* largest partition, in records: more than one batch of batch_size
MaxRecords == 6
\* labels that occur in the data and in the predictions are 0..MaxLabel
MaxLabel == 1
\* the wall clock runs over the ticks 0..MaxTick
MaxTick == 3

Partitions == {"train", "test", "eval"}
Kinds == {"csv", "png", "json"}
Labels == {l \in 0..MaxLabel : l < n_labels}
Ticks == 0..MaxTick

(***************************************************************************)
(* Pure helpers.                                                           *)
(***************************************************************************)
RECURSIVE SumTo(_, _)
\* f[0] + ... + f[n]
SumTo(f, n) == IF n < 0 THEN 0 ELSE f[n] + SumTo(f, n - 1)

\* elements of s as a set
Range(s) == {s[i] : i \in DOMAIN s}

\* len(DataLoader(ds, batch_size=batch_size)): the last batch may be shorter
NumBatches(n) == (n + batch_size - 1) \div batch_size

\* the records (1-based positions) of batch number k (0-based) of n records
BatchLo(k) == k * batch_size + 1
BatchHi(k, n) == IF (k + 1) * batch_size < n THEN (k + 1) * batch_size ELSE n

\* batch["labels"] of batch k of an unshuffled loader over refs
BatchLabels(refs, k) == SubSeq(refs, BatchLo(k), BatchHi(k, Len(refs)))

\* outputs.logits.argmax(dim=-1): one label per record of the batch.  The
\* logits are not modelled; the predictions of a batch are the references
\* shifted by d (d = 0: every record right), d an input of the step.
Argmax(labels, d) == [i \in 1..Len(labels) |-> (labels[i] + d) % (MaxLabel + 1)]

\* evaluate's accuracy: the fraction of positions where prediction and
\* reference agree, kept as the exact ratio num/den
Accuracy(predictions, references) ==
    [num |-> Cardinality({i \in 1..Len(predictions) : predictions[i] = references[i]}),
     den |-> Len(predictions)]

\* sklearn.utils.multiclass.unique_labels: the labels that occur in either
\* list, in increasing order
UniqueLabels(y_true, y_pred) ==
    LET S == Range(y_true) \cup Range(y_pred)
    IN  CHOOSE s \in [1..Cardinality(S) -> S] :
            \A i, j \in 1..Cardinality(S) : i < j => s[i] < s[j]

\* sklearn.metrics.confusion_matrix(y_true, y_pred) with labels=None: a grid
\* over the observed labels; cell [i][j] (0-based) counts the records whose
\* true label is the i-th observed label and predicted label the j-th
confusion_matrix(y_true, y_pred) ==
    LET labels == UniqueLabels(y_true, y_pred)
        n == Len(labels)
    IN  [i \in 0..(n - 1) |->
            [j \in 0..(n - 1) |->
                Cardinality({k \in 1..Len(y_true) :
                    y_true[k] = labels[i + 1] /\ y_pred[k] = labels[j + 1]})]]

RowSum(m, i) == SumTo(m[i], Cardinality(DOMAIN m) - 1)
CellSum(m) == SumTo([i \in DOMAIN m |-> RowSum(m, i)], Cardinality(DOMAIN m) - 1)

\* the wall-clock minute (counted from the first tick's day) of instant t
MinuteOf(t) == 1438 + (t * 30) \div 60

\* a format that keeps the seconds: '%d-%m-%Y-%H-%M-%S'
StrftimeSeconds(t) ==
    LET m == 1438 + (t * 30) \div 60
    IN  <<5 + m \div 1440, 11, 2026, (m \div 60) % 24, m % 60, (t * 30) % 60>>
\* datetime.strftime('%d-%m-%Y-%H-%M') of the instant t ticks (of 30 s) after
\* 05-11-2026 23:58:00: <<day, month, year, hour, minute>>
Strftime(t) ==
    LET m == 1438 + (t * 30) \div 60
    IN  <<5 + m \div 1440, 11, 2026, (m \div 60) % 24, m % 60>>

\* f"results/{today}-conjunto{conjunto}-{num_epochs}-epochs.json"
SummaryPath(day, c) == <<"results/", day, "-conjunto", c, "-", num_epochs, "-epochs.json">>

(***************************************************************************)
(* State of one run (Spec).                                                *)
(***************************************************************************)
VARIABLES
    argv,               \* sys.argv
    present,            \* which of the three parquet files exist
    train_size,         \* records of the train file
    test_refs,          \* the label column of the test file, in file order
    eval_refs,          \* the label column of the eval file, in file order
    pc,                 \* position in the script
    exit_code,          \* process exit status, -1 while running
    usage_printed,      \* the usage line was printed
    file_io,            \* some file of the run was opened (tokenizer, data, model, output)
    conjunto, obs,      \* lines 30-34
    model,              \* mode, params, optimizer and scheduler state, gradients
    metric,             \* the buffers of the evaluate accuracy object
    epoch, step,        \* loop variables
    results,            \* the results dict: metrics, validation_metric, date
    all_predictions, all_references,
    cm,                 \* <<>> before line 207, then <<the matrix>>
    files,              \* the three output files of this run
    crash_at,           \* position of the uncaught exception, "" if none
    \* history variables
    ops,                \* operations applied to the current train batch
    trained, tested,    \* batches done in the current epoch's train / test phase
    iterations,         \* completed iterations of the epoch loop
    eval_seen,          \* batches of the eval partition passed to the model
    steps_after_eval,   \* optimizer steps taken after the first eval batch
    phase_predictions, phase_references,  \* what the current phase produced
    expected,           \* per epoch, the accuracy of that epoch's own test batches
    \* state of SpecRuns
    clock,              \* the wall clock, in ticks of 30 s
    rpc, rconj,         \* per run: position, dataset identifier
    rstart,             \* per run: start_time (line 36)
    rreport, rtoday,    \* per run: the instant line 223 ran, and today
    disk                \* the summaries in results/: path and the run that wrote it

vars == <<argv, present, train_size, test_refs, eval_refs, pc, exit_code,
          usage_printed, file_io, conjunto, obs, model, metric, epoch, step,
          results, all_predictions, all_references, cm, files, crash_at, ops,
          trained, tested, iterations, eval_seen, steps_after_eval,
          phase_predictions, phase_references, expected,
          clock, rpc, rconj, rstart, rreport, rtoday, disk>>

inputVars == <<argv, present, train_size, test_refs, eval_refs>>
runsVars == <<clock, rpc, rconj, rstart, rreport, rtoday, disk>>
histVars == <<ops, trained, tested, iterations, eval_seen, steps_after_eval,
              phase_predictions, phase_references, expected>>

\* the data a partition of n records may hold: labels cycling over Labels
Cyclic(n) == [i \in 1..n |-> (i - 1) % (MaxLabel + 1)]
\* n records that all carry label c
Constant(n, c) == [i \in 1..n |-> c]

ArgvChoices == {<<"script">>, <<"script", "7">>, <<"script", "7", "note">>}
TrainSizes == {1, MaxRecords}
TestData == {<<>>, Constant(1, 0), Cyclic(MaxRecords)}
EvalData == {<<>>, Constant(1, MaxLabel), Cyclic(MaxRecords)}

\* the process memory before any statement ran (and after the process died)
FreshModel == [mode |-> "none", params |-> 0, opt_steps |-> 0, sched_steps |-> 0, grads |-> FALSE]
FreshMetric == [predictions |-> <<>>, references |-> <<>>]
FreshResults == [metrics |-> <<>>, validation_metric |-> <<>>, date |-> <<>>]

MemoryInit ==
    /\ conjunto = "" /\ obs = ""
    /\ model = FreshModel
    /\ metric = FreshMetric
    /\ epoch = 0 /\ step = 0
    /\ results = FreshResults
    /\ all_predictions = <<>> /\ all_references = <<>>
    /\ cm = <<>>
    /\ ops = <<>> /\ trained = 0 /\ tested = 0 /\ iterations = 0
    /\ eval_seen = 0 /\ steps_after_eval = 0
    /\ phase_predictions = <<>> /\ phase_references = <<>>
    /\ expected = <<>>

RunsIdle ==
    /\ clock = 0
    /\ rpc = <<>> /\ rconj = <<>> /\ rstart = <<>>
    /\ rreport = <<>> /\ rtoday = <<>>
    /\ disk = {}

Init ==
    /\ argv \in ArgvChoices
    /\ present \in [Partitions -> BOOLEAN]
    /\ train_size \in (IF present["train"] THEN TrainSizes ELSE {0})
    /\ test_refs \in (IF present["test"] THEN TestData ELSE {<<>>})
    /\ eval_refs \in (IF present["eval"] THEN EvalData ELSE {<<>>})
    /\ pc = "args"
    /\ exit_code = -1
    /\ usage_printed = FALSE
    /\ file_io = FALSE
    /\ files = [k \in Kinds |-> "absent"]
    /\ crash_at = ""
    /\ MemoryInit
    /\ RunsIdle

(***************************************************************************)
(* The run: one action per statement or loop step of the script.           *)
(***************************************************************************)
Static == <<inputVars, runsVars>>

\* an uncaught exception at position `at`: the process dies with status 1 and
\* its memory is gone; what it wrote to disk stays
Die(at) ==
    /\ pc' = "crashed"
    /\ exit_code' = 1
    /\ crash_at' = at
    /\ conjunto' = "" /\ obs' = ""
    /\ model' = FreshModel
    /\ metric' = FreshMetric
    /\ epoch' = 0 /\ step' = 0
    /\ results' = FreshResults
    /\ all_predictions' = <<>> /\ all_references' = <<>>
    /\ cm' = <<>>
    /\ ops' = <<>> /\ trained' = 0 /\ tested' = 0 /\ iterations' = 0
    /\ eval_seen' = 0 /\ steps_after_eval' = 0
    /\ phase_predictions' = <<>> /\ phase_references' = <<>>
    /\ expected' = <<>>
    /\ UNCHANGED <<usage_printed, file_io, Static>>

\* the status of sys.exit() without an argument
SysExitStatus == 0

\* lines 26-34
ParseArgs ==
    /\ pc = "args"
    /\ IF Len(argv) < 2
       THEN /\ usage_printed' = TRUE
            /\ exit_code' = SysExitStatus
            /\ pc' = "exited"
            /\ UNCHANGED <<conjunto, obs>>
       ELSE /\ conjunto' = argv[2]
            /\ obs' = (IF Len(argv) > 2 THEN argv[3] ELSE "")
            /\ pc' = "tokenizer"
            /\ UNCHANGED <<usage_printed, exit_code>>
    /\ UNCHANGED <<file_io, model, metric, epoch, step, results, all_predictions,
                   all_references, cm, files, crash_at, histVars, Static>>

\* lines 58-60: AutoTokenizer.from_pretrained reads the tokenizer files
LoadTokenizer ==
    /\ pc = "tokenizer"
    /\ file_io' = TRUE
    /\ pc' = "load_train"
    /\ UNCHANGED <<exit_code, usage_printed, conjunto, obs, model, metric, epoch,
                   step, results, all_predictions, all_references, cm, files,
                   crash_at, histVars, Static>>

\* load_dataset("parquet", data_files=...) raises when the file is missing
LoadRaisesLazy(p) == FALSE
LoadRaises(p) == ~present[p]

\* lines 63-71, one call per partition
LoadDataset(p, next) ==
    /\ pc = "load_" \o p
    /\ IF LoadRaises(p)
       THEN Die(pc) /\ UNCHANGED files
       ELSE /\ file_io' = TRUE
            /\ pc' = next
            /\ UNCHANGED <<exit_code, usage_printed, conjunto, obs, model, metric,
                           epoch, step, results, all_predictions, all_references,
                           cm, files, crash_at, histVars, Static>>

\* lines 73-124: the accuracy object, tokenisation, the three loaders
Prepare ==
    /\ pc = "prepare"
    /\ metric' = FreshMetric
    /\ pc' = "model_load"
    /\ UNCHANGED <<exit_code, usage_printed, file_io, conjunto, obs, model, epoch,
                   step, results, all_predictions, all_references, cm, files,
                   crash_at, histVars, Static>>

\* lines 126-141: pretrained body, adapter, optimizer, scheduler
LoadModel ==
    /\ pc = "model_load"
    /\ model' = [mode |-> "assembled", params |-> 0, opt_steps |-> 0,
                 sched_steps |-> 0, grads |-> FALSE]
    /\ pc' = "results_init"
    /\ UNCHANGED <<exit_code, usage_printed, file_io, conjunto, obs, metric, epoch,
                   step, results, all_predictions, all_references, cm, files,
                   crash_at, histVars, Static>>

\* lines 142-154
InitResults ==
    /\ pc = "results_init"
    /\ results' = [metrics |-> <<>>, validation_metric |-> <<>>, date |-> <<>>,
                   epochs |-> num_epochs, conjunto |-> conjunto, obs |-> obs,
                   train_size |-> train_size, test_size |-> Len(test_refs),
                   eval_size |-> Len(eval_refs)]
    /\ epoch' = 0
    /\ pc' = "epoch_loop"
    /\ UNCHANGED <<exit_code, usage_printed, file_io, conjunto, obs, model, metric,
                   step, all_predictions, all_references, cm, files, crash_at,
                   histVars, Static>>

\* an early-stopping loop: stop once an epoch reached accuracy 1
EpochContinuesEarlyStop(e, m) ==
    /\ e < num_epochs
    /\ \A k \in DOMAIN m : m[k].num < m[k].den
\* line 156: for epoch in range(num_epochs)
EpochContinues(e, m) == e < num_epochs

\* lines 156-157: the next epoch starts, model.train()
EnterEpoch ==
    /\ pc = "epoch_loop"
    /\ EpochContinues(epoch, results.metrics)
    /\ model' = [model EXCEPT !.mode = "train"]
    /\ step' = 0
    /\ trained' = 0 /\ tested' = 0 /\ ops' = <<>>
    /\ pc' = "train_loop"
    /\ UNCHANGED <<exit_code, usage_printed, file_io, conjunto, obs, metric, epoch,
                   results, all_predictions, all_references, cm, files, crash_at,
                   iterations, eval_seen, steps_after_eval, phase_predictions,
                   phase_references, expected, Static>>

\* lines 159-160: the next train batch, forward pass
Forward ==
    /\ pc = "train_loop"
    /\ step < NumBatches(train_size)
    /\ ops' = <<"forward">>
    /\ pc' = "backward"
    /\ UNCHANGED <<exit_code, usage_printed, file_io, conjunto, obs, model, metric,
                   epoch, step, results, all_predictions, all_references, cm, files,
                   crash_at, trained, tested, iterations, eval_seen,
                   steps_after_eval, phase_predictions, phase_references, expected,
                   Static>>

\* lines 161-162
Backward ==
    /\ pc = "backward"
    /\ model' = [model EXCEPT !.grads = TRUE]
    /\ ops' = Append(ops, "backward")
    /\ pc' = "optimizer_step"
    /\ UNCHANGED <<exit_code, usage_printed, file_io, conjunto, obs, metric, epoch,
                   step, results, all_predictions, all_references, cm, files,
                   crash_at, trained, tested, iterations, eval_seen,
                   steps_after_eval, phase_predictions, phase_references, expected,
                   Static>>

\* line 163
OptimizerStep ==
    /\ pc = "optimizer_step"
    /\ model' = [model EXCEPT !.params = @ + 1, !.opt_steps = @ + 1]
    /\ steps_after_eval' = (IF eval_seen > 0 THEN steps_after_eval + 1 ELSE steps_after_eval)
    /\ ops' = Append(ops, "optimizer.step")
    /\ pc' = "scheduler_step"
    /\ UNCHANGED <<exit_code, usage_printed, file_io, conjunto, obs, metric, epoch,
                   step, results, all_predictions, all_references, cm, files,
                   crash_at, trained, tested, iterations, eval_seen,
                   phase_predictions, phase_references, expected, Static>>

\* line 164
SchedulerStep ==
    /\ pc = "scheduler_step"
    /\ model' = [model EXCEPT !.sched_steps = @ + 1]
    /\ ops' = Append(ops, "lr_scheduler.step")
    /\ pc' = "zero_grad"
    /\ UNCHANGED <<exit_code, usage_printed, file_io, conjunto, obs, metric, epoch,
                   step, results, all_predictions, all_references, cm, files,
                   crash_at, trained, tested, iterations, eval_seen,
                   steps_after_eval, phase_predictions, phase_references, expected,
                   Static>>

\* line 165, and back to line 158
ZeroGrad ==
    /\ pc = "zero_grad"
    /\ model' = [model EXCEPT !.grads = FALSE]
    /\ ops' = Append(ops, "optimizer.zero_grad")
    /\ step' = step + 1
    /\ trained' = trained + 1
    /\ pc' = "train_loop"
    /\ UNCHANGED <<exit_code, usage_printed, file_io, conjunto, obs, metric, epoch,
                   results, all_predictions, all_references, cm, files, crash_at,
                   tested, iterations, eval_seen, steps_after_eval,
                   phase_predictions, phase_references, expected, Static>>

\* the model's mode for the test phase, had line 167 been left out
ModeAfterTrainKept == "train"
\* line 167: model.eval()
ModeAfterTrain == "eval"

\* the test phase iterating the eval loader
TestLoaderEval == "eval"
\* line 168: the test phase iterates test_dataloader
TestLoader == "test"

\* the label column behind a loader
LoaderData(p) == IF p = "eval" THEN eval_refs ELSE test_refs

\* line 167: the train loader is exhausted, model.eval(), the test loop starts
EndTrain ==
    /\ pc = "train_loop"
    /\ step >= NumBatches(train_size)
    /\ model' = [model EXCEPT !.mode = ModeAfterTrain]
    /\ step' = 0
    /\ phase_predictions' = <<>> /\ phase_references' = <<>>
    /\ pc' = "test_loop"
    /\ UNCHANGED <<exit_code, usage_printed, file_io, conjunto, obs, metric, epoch,
                   results, all_predictions, all_references, cm, files, crash_at,
                   ops, trained, tested, iterations, eval_seen, steps_after_eval,
                   expected, Static>>

\* metric.add_batch(predictions=..., references=...)
AddBatch(m, predictions, references) ==
    [predictions |-> m.predictions \o predictions,
     references |-> m.references \o references]

\* lines 168-178: one test batch under torch.no_grad()
TestBatch ==
    /\ pc = "test_loop"
    /\ step < NumBatches(Len(LoaderData(TestLoader)))
    /\ \E d \in Labels :
         LET references == BatchLabels(LoaderData(TestLoader), step)
             predictions == Argmax(references, d)
         IN  /\ metric' = AddBatch(metric, predictions, references)
             /\ phase_predictions' = phase_predictions \o predictions
             /\ phase_references' = phase_references \o references
    /\ step' = step + 1
    /\ tested' = tested + 1
    /\ eval_seen' = (IF TestLoader = "eval" THEN eval_seen + 1 ELSE eval_seen)
    /\ UNCHANGED <<pc, exit_code, usage_printed, file_io, conjunto, obs, model,
                   epoch, results, all_predictions, all_references, cm, files,
                   crash_at, ops, trained, iterations, steps_after_eval, expected,
                   Static>>

\* a compute() that leaves the buffers as they are
ComputeKeeps(m) == m
\* metric.compute() releases the buffered predictions and references
ComputeClears(m) == FreshMetric

\* the key keyed by the batch counter instead of the epoch
MetricKeyStep(e, s) == s
\* line 182: results["metrics"][epoch]
MetricKey(e, s) == e

\* lines 180-182: metric.compute() raises when nothing was added; otherwise the
\* accuracy is recorded under the epoch and the loop goes to its next epoch
ComputeTest ==
    /\ pc = "test_loop"
    /\ step >= NumBatches(Len(LoaderData(TestLoader)))
    /\ IF Len(metric.predictions) = 0
       THEN Die("compute_test") /\ UNCHANGED files
       ELSE /\ results' = [results EXCEPT !.metrics =
                    (MetricKey(epoch, step) :> Accuracy(metric.predictions, metric.references)) @@ @]
            /\ metric' = ComputeClears(metric)
            /\ expected' = (epoch :> Accuracy(phase_predictions, phase_references)) @@ expected
            /\ epoch' = epoch + 1
            /\ iterations' = iterations + 1
            /\ pc' = "epoch_loop"
            /\ UNCHANGED <<exit_code, usage_printed, file_io, conjunto, obs, model,
                           step, all_predictions, all_references, cm, files,
                           crash_at, ops, trained, tested, eval_seen,
                           steps_after_eval, phase_predictions, phase_references,
                           Static>>

\* lines 156, 185-186: range(num_epochs) is exhausted, the eval lists are created
ExitEpochLoop ==
    /\ pc = "epoch_loop"
    /\ ~EpochContinues(epoch, results.metrics)
    /\ all_predictions' = <<>> /\ all_references' = <<>>
    /\ phase_predictions' = <<>> /\ phase_references' = <<>>
    /\ step' = 0
    /\ pc' = "eval_loop"
    /\ UNCHANGED <<exit_code, usage_printed, file_io, conjunto, obs, model, metric,
                   epoch, results, cm, files, crash_at, ops, trained, tested,
                   iterations, eval_seen, steps_after_eval, expected, Static>>

\* lines 188-200: one eval batch under torch.no_grad()
EvalBatch ==
    /\ pc = "eval_loop"
    /\ step < NumBatches(Len(eval_refs))
    /\ \E d \in Labels :
         LET references == BatchLabels(eval_refs, step)
             predictions == Argmax(references, d)
         IN  /\ all_predictions' = all_predictions \o predictions
             /\ all_references' = all_references \o references
             /\ metric' = AddBatch(metric, predictions, references)
             /\ phase_predictions' = phase_predictions \o predictions
             /\ phase_references' = phase_references \o references
    /\ step' = step + 1
    /\ eval_seen' = eval_seen + 1
    /\ UNCHANGED <<pc, exit_code, usage_printed, file_io, conjunto, obs, model,
                   epoch, results, cm, files, crash_at, ops, trained, tested,
                   iterations, steps_after_eval, expected, Static>>

\* lines 202-204
ComputeEval ==
    /\ pc = "eval_loop"
    /\ step >= NumBatches(Len(eval_refs))
    /\ IF Len(metric.predictions) = 0
       THEN Die("compute_eval") /\ UNCHANGED files
       ELSE /\ results' = [results EXCEPT !.validation_metric =
                    <<Accuracy(metric.predictions, metric.references)>>]
            /\ metric' = ComputeClears(metric)
            /\ pc' = "confusion"
            /\ UNCHANGED <<exit_code, usage_printed, file_io, conjunto, obs, model,
                           epoch, step, all_predictions, all_references, cm, files,
                           crash_at, histVars, Static>>

\* the summary written before the matrix files
ReportOrderSummaryFirst == <<"timestamp", "write_json", "write_csv", "write_png">>
\* lines 211-234 in file order
ReportOrder == <<"write_csv", "write_png", "timestamp", "write_json">>

\* the reporting statement after statement number i of ReportOrder
ReportNext(i) == IF i < Len(ReportOrder) THEN ReportOrder[i + 1] ELSE "finish"
ReportIndex(at) == CHOOSE i \in 1..Len(ReportOrder) : ReportOrder[i] = at

\* lines 207-210
ConfusionMatrix ==
    /\ pc = "confusion"
    /\ cm' = <<confusion_matrix(all_references, all_predictions)>>
    /\ pc' = ReportNext(0)
    /\ UNCHANGED <<exit_code, usage_printed, file_io, conjunto, obs, model, metric,
                   epoch, step, results, all_predictions, all_references, files,
                   crash_at, histVars, Static>>

\* line 211 (csv), lines 214-220 (png), lines 229-234 (json)
WriteFile(kind) ==
    /\ pc = "write_" \o kind
    /\ files' = [files EXCEPT ![kind] = "complete"]
    /\ file_io' = TRUE
    /\ pc' = ReportNext(ReportIndex(pc))
    /\ UNCHANGED <<exit_code, usage_printed, conjunto, obs, model, metric, epoch,
                   step, results, all_predictions, all_references, cm, crash_at,
                   histVars, Static>>

\* lines 223-227: the clock is read when the report is written
Timestamp ==
    /\ pc = "timestamp"
    /\ \E t \in Ticks : results' = [results EXCEPT !.date = <<Strftime(t)>>]
    /\ pc' = ReportNext(ReportIndex(pc))
    /\ UNCHANGED <<exit_code, usage_printed, file_io, conjunto, obs, model, metric,
                   epoch, step, all_predictions, all_references, cm, files,
                   crash_at, histVars, Static>>

\* line 237 and the end of the script
Finish ==
    /\ pc = "finish"
    /\ exit_code' = 0
    /\ pc' = "finished"
    /\ UNCHANGED <<usage_printed, file_io, conjunto, obs, model, metric, epoch,
                   step, results, all_predictions, all_references, cm, files,
                   crash_at, histVars, Static>>

\* the statements at which the libraries may raise (out of memory, I/O error,
\* device fault): everything between argument intake and the last write
Faultable == {"tokenizer", "load_train", "load_test", "load_eval", "prepare",
              "model_load", "results_init", "train_loop", "backward",
              "optimizer_step", "scheduler_step", "zero_grad", "test_loop",
              "eval_loop", "confusion", "write_csv", "write_png", "write_json"}

\* an uncaught exception; a write that fails may leave a truncated file
Fault ==
    /\ pc \in Faultable
    /\ Die(pc)
    /\ \/ UNCHANGED files
       \/ /\ pc \in {"write_csv", "write_png", "write_json"}
          /\ \E k \in Kinds : /\ pc = "write_" \o k
                              /\ files' = [files EXCEPT ![k] = "partial"]

Next ==
    \/ ParseArgs
    \/ LoadTokenizer
    \/ LoadDataset("train", "load_test")
    \/ LoadDataset("test", "load_eval")
    \/ LoadDataset("eval", "prepare")
    \/ Prepare
    \/ LoadModel
    \/ InitResults
    \/ EnterEpoch
    \/ Forward
    \/ Backward
    \/ OptimizerStep
    \/ SchedulerStep
    \/ ZeroGrad
    \/ EndTrain
    \/ TestBatch
    \/ ComputeTest
    \/ ExitEpochLoop
    \/ EvalBatch
    \/ ComputeEval
    \/ ConfusionMatrix
    \/ WriteFile("csv")
    \/ WriteFile("png")
    \/ Timestamp
    \/ WriteFile("json")
    \/ Finish
    \/ Fault

Spec == Init /\ [][Next]_vars

(***************************************************************************)
(* SpecRuns: two runs of the script against one results/ directory.  Only  *)
(* what names the summary file is kept of each run: the dataset            *)
(* identifier, the start instant, the instant the report is stamped.       *)
(***************************************************************************)
Runs == {1, 2}
Conjuntos == {"7", "8"}

oneRunVars == <<argv, present, train_size, test_refs, eval_refs, pc, exit_code,
                usage_printed, file_io, conjunto, obs, model, metric, epoch, step,
                results, all_predictions, all_references, cm, files, crash_at,
                histVars>>

RunsInit ==
    /\ argv = <<"script">>
    /\ present = [p \in Partitions |-> FALSE]
    /\ train_size = 0 /\ test_refs = <<>> /\ eval_refs = <<>>
    /\ pc = "idle"
    /\ exit_code = -1
    /\ usage_printed = FALSE
    /\ file_io = FALSE
    /\ files = [k \in Kinds |-> "absent"]
    /\ crash_at = ""
    /\ MemoryInit
    /\ clock = 0
    /\ rpc = [r \in Runs |-> "idle"]
    /\ rconj = [r \in Runs |-> ""]
    /\ rstart = [r \in Runs |-> 0]
    /\ rreport = [r \in Runs |-> 0]
    /\ rtoday = [r \in Runs |-> <<>>]
    /\ disk = {}

\* time passes
Tick ==
    /\ clock < MaxTick
    /\ clock' = clock + 1
    /\ UNCHANGED <<rpc, rconj, rstart, rreport, rtoday, disk, oneRunVars>>

\* lines 26-36: the run is started with a dataset identifier
RunStart(r) ==
    /\ rpc[r] = "idle"
    /\ \E c \in Conjuntos : rconj' = [rconj EXCEPT ![r] = c]
    /\ rstart' = [rstart EXCEPT ![r] = clock]
    /\ rpc' = [rpc EXCEPT ![r] = "running"]
    /\ UNCHANGED <<clock, rreport, rtoday, disk, oneRunVars>>

\* lines 38-220: loading, training, evaluation, the matrix files
RunPipeline(r) ==
    /\ rpc[r] = "running"
    /\ rpc' = [rpc EXCEPT ![r] = "report"]
    /\ UNCHANGED <<clock, rconj, rstart, rreport, rtoday, disk, oneRunVars>>

\* an uncaught exception somewhere in lines 38-220
RunFault(r) ==
    /\ rpc[r] = "running"
    /\ rpc' = [rpc EXCEPT ![r] = "crashed"]
    /\ UNCHANGED <<clock, rconj, rstart, rreport, rtoday, disk, oneRunVars>>

\* line 223: today = datetime.now().strftime('%d-%m-%Y-%H-%M')
RunTimestamp(r) ==
    /\ rpc[r] = "report"
    /\ rreport' = [rreport EXCEPT ![r] = clock]
    /\ rtoday' = [rtoday EXCEPT ![r] = Strftime(clock)]
    /\ rpc' = [rpc EXCEPT ![r] = "write"]
    /\ UNCHANGED <<clock, rconj, rstart, disk, oneRunVars>>

\* lines 229-234: open(path, "w") replaces whatever the path held
RunWriteJson(r) ==
    /\ rpc[r] = "write"
    /\ LET path == SummaryPath(rtoday[r], rconj[r])
       IN  disk' = {f \in disk : f.path # path} \cup {[path |-> path, by |-> r]}
    /\ rpc' = [rpc EXCEPT ![r] = "done"]
    /\ UNCHANGED <<clock, rconj, rstart, rreport, rtoday, oneRunVars>>

NextRuns ==
    \/ Tick
    \/ \E r \in Runs : RunStart(r)
    \/ \E r \in Runs : RunPipeline(r)
    \/ \E r \in Runs : RunFault(r)
    \/ \E r \in Runs : RunTimestamp(r)
    \/ \E r \in Runs : RunWriteJson(r)

SpecRuns == RunsInit /\ [][NextRuns]_vars

(***************************************************************************)
(* The run without library faults, kept running by the interpreter: the    *)
(* script is sequential, so a statement that can execute does.             *)
(***************************************************************************)
NextNoFault ==
    \/ ParseArgs
    \/ LoadTokenizer
    \/ LoadDataset("train", "load_test")
    \/ LoadDataset("test", "load_eval")
    \/ LoadDataset("eval", "prepare")
    \/ Prepare
    \/ LoadModel
    \/ InitResults
    \/ EnterEpoch
    \/ Forward
    \/ Backward
    \/ OptimizerStep
    \/ SchedulerStep
    \/ ZeroGrad
    \/ EndTrain
    \/ TestBatch
    \/ ComputeTest
    \/ ExitEpochLoop
    \/ EvalBatch
    \/ ComputeEval
    \/ ConfusionMatrix
    \/ WriteFile("csv")
    \/ WriteFile("png")
    \/ Timestamp
    \/ WriteFile("json")
    \/ Finish

SpecNoFault == Init /\ [][NextNoFault]_vars /\ WF_vars(NextNoFault)

(***************************************************************************)
(* Properties.                                                             *)
(***************************************************************************)
TrainPositions == {"train_loop", "backward", "optimizer_step", "scheduler_step", "zero_grad"}
LoopPositions == TrainPositions \cup {"epoch_loop", "test_loop"}
ReportPositions == {"write_csv", "write_png", "timestamp", "write_json", "finish", "finished"}
AfterLoop == {"eval_loop", "confusion"} \cup ReportPositions
AfterEval == {"confusion"} \cup ReportPositions
WritePositions == {"write_csv", "write_png", "write_json"}
BatchOps == <<"forward", "backward", "optimizer.step", "lr_scheduler.step", "optimizer.zero_grad">>

InUnitInterval(a) == a.den > 0 /\ 0 <= a.num /\ a.num <= a.den

\* C1: once the epoch loop has ended, results["metrics"] holds exactly
\* num_epochs entries, keyed 0..num_epochs-1, each an accuracy in [0, 1];
\* inside the loop it holds one entry per completed epoch.
C1_MetricsPerEpoch ==
    /\ pc \in AfterLoop =>
         /\ DOMAIN results.metrics = 0..(num_epochs - 1)
         /\ Cardinality(DOMAIN results.metrics) = num_epochs
         /\ \A k \in DOMAIN results.metrics : InUnitInterval(results.metrics[k])
    /\ pc \in LoopPositions => DOMAIN results.metrics = 0..(iterations - 1)

C1_Witness ==
    /\ pc = "finished"
    /\ Cardinality(DOMAIN results.metrics) = num_epochs
    /\ \E k \in DOMAIN results.metrics :
         0 < results.metrics[k].num /\ results.metrics[k].num < results.metrics[k].den

\* C2: the confusion matrix sums to the number of eval records, and row i
\* sums to the number of eval records whose true label is i.
C2_RowsAreLabels ==
    cm # <<>> =>
        /\ CellSum(cm[1]) = Len(eval_refs)
        /\ \A i \in DOMAIN cm[1] :
             RowSum(cm[1], i) = Cardinality({k \in 1..Len(eval_refs) : eval_refs[k] = i})

\* C3: without a dataset identifier the process prints the usage line and
\* exits with a nonzero status before any file I/O.
C3_UsageExitsNonzero ==
    (Len(argv) < 2 /\ pc # "args") =>
        /\ pc = "exited"
        /\ usage_printed
        /\ ~file_io
        /\ exit_code > 0

\* C4 as claimed: a run that ended by a fault, wherever it occurred, has
\* persisted no result file.
C4_NoFileAfterFault ==
    pc = "crashed" => \A k \in Kinds : files[k] = "absent"

\* C4 as amended: a fault before the reporting stage leaves no result file; a
\* result file exists only after all num_epochs epochs and the eval pass are
\* complete; the JSON summary is written last, after the CSV and the PNG were
\* written completely, and is complete only when the run reached its end.
C4_FilesOnlyFromReport ==
    /\ (pc = "crashed" /\ crash_at \notin WritePositions) =>
          \A k \in Kinds : files[k] = "absent"
    /\ (\E k \in Kinds : files[k] # "absent") =>
          \/ pc = "crashed" /\ crash_at \in WritePositions
          \/ /\ pc \in ReportPositions
             /\ iterations = num_epochs
             /\ Cardinality(DOMAIN results.metrics) = num_epochs
             /\ results.validation_metric # <<>>
             /\ eval_seen = NumBatches(Len(eval_refs))
    /\ files["json"] # "absent" =>
          /\ files["csv"] = "complete" /\ files["png"] = "complete"
          /\ pc \in {"finish", "finished"} \/ (pc = "crashed" /\ crash_at = "write_json")
    /\ files["json"] = "complete" => pc \in {"finish", "finished"}

C4_Witness ==
    /\ pc = "crashed"
    /\ crash_at = "write_png"
    /\ files["csv"] = "complete"
    /\ files["json"] = "absent"

\* C5 as claimed: two runs started within the same minute with the same
\* dataset identifier write their summary to the same path.
C5_SameStartMinuteSamePath ==
    \A r1, r2 \in Runs :
        (/\ r1 # r2
         /\ rpc[r1] = "done" /\ rpc[r2] = "done"
         /\ MinuteOf(rstart[r1]) = MinuteOf(rstart[r2])
         /\ rconj[r1] = rconj[r2])
        => /\ SummaryPath(rtoday[r1], rconj[r1]) = SummaryPath(rtoday[r2], rconj[r2])
           /\ Cardinality(disk) = 1

\* C5 as amended: two runs write their summary to the same path, the later
\* write replacing the earlier summary, exactly when they reach the report
\* (line 223) within the same wall-clock minute with the same dataset
\* identifier, whenever they were started.
C5_SameReportMinuteSamePath ==
    \A r1, r2 \in Runs :
        (r1 # r2 /\ rpc[r1] = "done" /\ rpc[r2] = "done") =>
            LET same == /\ MinuteOf(rreport[r1]) = MinuteOf(rreport[r2])
                        /\ rconj[r1] = rconj[r2]
            IN  /\ same <=> (SummaryPath(rtoday[r1], rconj[r1]) = SummaryPath(rtoday[r2], rconj[r2]))
                /\ same <=> (Cardinality(disk) = 1)
                /\ ~same <=> (Cardinality(disk) = 2)

C5_Witness ==
    /\ rpc[1] = "done" /\ rpc[2] = "done"
    /\ rconj[1] = rconj[2]
    /\ rstart[1] = 0 /\ rstart[2] = 2
    /\ rreport[1] = 2 /\ rreport[2] = 3
    /\ Cardinality(disk) = 1

\* C6: when one of the three input files is missing, the run never gets
\* past the loading calls: no forward or backward pass and no optimizer step
\* is executed.
C6_NoTrainingOnMissingFile ==
    (\E p \in Partitions : ~present[p]) =>
        /\ pc \in {"args", "exited", "tokenizer", "load_train", "load_test", "load_eval", "crashed"}
        /\ pc = "crashed" => crash_at \in {"tokenizer", "load_train", "load_test", "load_eval"}
        /\ model.opt_steps = 0 /\ model.params = 0 /\ ~model.grads
        /\ ops = <<>>

C6_Witness ==
    /\ pc = "crashed"
    /\ crash_at = "load_eval"
    /\ present["train"] /\ present["test"] /\ ~present["eval"]
    /\ train_size > 0

\* C7: the accuracy accumulator is empty when a test phase or the eval pass
\* starts and holds only the current phase's batches; the accuracy recorded
\* for an epoch is that of the epoch's own test batches, and
\* validation_metric is that of the eval partition's predictions alone.
C7_AccumulatorPerPhase ==
    /\ (pc \in {"test_loop", "eval_loop"} /\ step = 0) => metric = FreshMetric
    /\ pc \in {"test_loop", "eval_loop"} =>
         /\ metric.predictions = phase_predictions
         /\ metric.references = phase_references
    /\ results.metrics = expected
    /\ results.validation_metric # <<>> =>
         results.validation_metric[1] = Accuracy(all_predictions, all_references)

C7_Witness ==
    /\ pc = "finished"
    /\ results.metrics[0].num = results.metrics[0].den
    /\ results.metrics[1].num = 0
    /\ results.validation_metric[1].num = results.validation_metric[1].den
    /\ results.validation_metric[1].den = MaxRecords

\* C8, the state part: every train batch gets forward, backward, optimizer
\* step, scheduler step and gradient reset in that order; a test batch of an
\* epoch is processed only after all train batches of that epoch; an epoch
\* ends with both phases complete; the loop is left after exactly num_epochs
\* iterations whatever the metrics were.
C8_LoopInvariant ==
    /\ pc \in TrainPositions =>
         /\ \E n \in 0..Len(BatchOps) : ops = SubSeq(BatchOps, 1, n)
         /\ (pc = "train_loop" /\ step > 0) => ops = BatchOps
         /\ trained = step /\ tested = 0
         /\ model.opt_steps = iterations * NumBatches(train_size) + trained
                                + (IF pc \in {"scheduler_step", "zero_grad"} THEN 1 ELSE 0)
    /\ pc = "test_loop" =>
         /\ trained = NumBatches(train_size)
         /\ tested = step
    /\ (pc = "epoch_loop" /\ iterations > 0) =>
         /\ trained = NumBatches(train_size)
         /\ tested = NumBatches(Len(test_refs))
    /\ pc \in LoopPositions => iterations = epoch /\ epoch <= num_epochs
    /\ pc \in AfterLoop =>
         /\ iterations = num_epochs
         /\ model.opt_steps = num_epochs * NumBatches(train_size)
         /\ model.sched_steps = model.opt_steps

\* C8: without faults, on input the script accepts, the epoch loop ends after
\* exactly num_epochs iterations, and the state part above holds throughout.
C8_LoopTerminates ==
    /\ []C8_LoopInvariant
    /\ (Len(argv) >= 2 /\ (\A p \in Partitions : present[p]) /\ test_refs # <<>>)
          => <>(pc \in AfterLoop /\ iterations = num_epochs)

C8_Witness ==
    /\ pc = "eval_loop"
    /\ iterations = num_epochs
    /\ train_size = MaxRecords
    /\ Len(test_refs) = MaxRecords
    /\ \E k \in DOMAIN results.metrics : results.metrics[k].num = results.metrics[k].den
    /\ model.opt_steps = num_epochs * 2

\* C9: eval batches reach the model only after the last optimizer step of
\* the last epoch, no optimizer step follows an eval batch, and the eval
\* partition is run once, record by record in file order.
C9_EvalAfterTraining ==
    /\ eval_seen > 0 =>
         /\ pc \in AfterLoop
         /\ iterations = num_epochs
         /\ model.opt_steps = num_epochs * NumBatches(train_size)
    /\ steps_after_eval = 0
    /\ pc = "eval_loop" => eval_seen = step
    /\ pc \in AfterEval =>
         /\ eval_seen = NumBatches(Len(eval_refs))
         /\ all_references = eval_refs
         /\ Len(all_predictions) = Len(eval_refs)

C9_Witness ==
    /\ pc = "finished"
    /\ eval_seen = 2
    /\ model.opt_steps = num_epochs * 2

\* C10: a test batch or an eval batch is processed with the model in
\* evaluation mode and leaves parameters, optimizer state and scheduler
\* position as they were; these change only in the train phase's optimizer
\* and scheduler steps.
C10_InferenceLeavesModel ==
    [][/\ (pc \in {"test_loop", "eval_loop"} /\ pc' = pc /\ step' = step + 1) =>
            (model.mode = "eval" /\ model' = model)
       /\ (pc' # "crashed" /\ pc # "model_load" /\
             <<model.params, model.opt_steps, model.sched_steps>>' #
             <<model.params, model.opt_steps, model.sched_steps>>) =>
            (pc \in {"optimizer_step", "scheduler_step"} /\ model.mode = "train")]_vars

C10_Witness ==
    /\ pc = "eval_loop"
    /\ step = 2
    /\ tested = 2
    /\ model.mode = "eval"
    /\ model.params = num_epochs * 2

====
